---- MODULE Spec2Model ----
(***************************************************************************)
(* pyckage: dependency tree building, conflict detection and resolution,   *)
(* and package-lock generation (src/src/pyckage/conflicts.py,              *)
(* src/src/pyckage/npm_utils.py).                                          *)
(*                                                                         *)
(* Python strings are sequences of one-character strings, so that          *)
(* formatting, splitting, stripping and lexicographic comparison are       *)
(* computed as the code computes them.  Python dicts are sequences of      *)
(* records in insertion order.                                             *)
(***************************************************************************)
EXTENDS Integers, Sequences, FiniteSets, TLC

(***************************************************************************)
(* Python string primitives                                                *)
(***************************************************************************)

\* The characters used, in code-point order (only the order matters).
Alphabet ==
  << " ", "'", "*", ",", "-", ".", "/", "0", "1", "2", "3", "4", "5", "6",
     "7", "8", "9", ":", "@", "P", "R", "^", "_", "a", "b", "c", "d", "e",
     "f", "g", "h", "i", "k", "l", "m", "n", "o", "p", "q", "r", "s", "t",
     "u", "v", "x", "~" >>

Ord(ch) == CHOOSE i \in 1..Len(Alphabet) : Alphabet[i] = ch

\* s < t for Python str: lexicographic by code point, a proper prefix is smaller.
RECURSIVE StrLess(_, _)
StrLess(s, t) ==
  IF t = <<>> THEN FALSE
  ELSE IF s = <<>> THEN TRUE
  ELSE IF Head(s) = Head(t) THEN StrLess(Tail(s), Tail(t))
  ELSE Ord(Head(s)) < Ord(Head(t))

\* min(list) / max(list) of Python strings: the first minimal / maximal element.
RECURSIVE StrMin(_)
StrMin(xs) ==
  IF Len(xs) = 1 THEN xs[1]
  ELSE LET m == StrMin(Tail(xs)) IN IF StrLess(m, xs[1]) THEN m ELSE xs[1]

RECURSIVE StrMax(_)
StrMax(xs) ==
  IF Len(xs) = 1 THEN xs[1]
  ELSE LET m == StrMax(Tail(xs)) IN IF StrLess(xs[1], m) THEN m ELSE xs[1]

\* s.lstrip(chars): drop leading characters that are in chars.
RECURSIVE LStrip(_, _)
LStrip(s, chars) ==
  IF s # <<>> /\ Head(s) \in chars THEN LStrip(Tail(s), chars) ELSE s

RECURSIVE RStrip(_, _)
RStrip(s, chars) ==
  IF s # <<>> /\ s[Len(s)] \in chars
  THEN RStrip(SubSeq(s, 1, Len(s) - 1), chars) ELSE s

\* s.strip(): drop white space at both ends.
Strip(s) == RStrip(LStrip(s, {" "}), {" "})

StartsWith(s, ch) == s # <<>> /\ Head(s) = ch

\* The position of the k-th separator of s; 0 before the first one and
\* Len(s) + 1 after the last one.
SepAt(s, sep, k) ==
  LET at == { i \in 1..Len(s) : s[i] = sep }
  IN IF k = 0 THEN 0
     ELSE IF k > Cardinality(at) THEN Len(s) + 1
     ELSE CHOOSE i \in at : Cardinality({ j \in at : j <= i }) = k

\* s.split(sep) for a one-character separator: the pieces between the
\* separators, always at least one.
Split(s, sep) ==
  [ k \in 1..(Cardinality({ i \in 1..Len(s) : s[i] = sep }) + 1) |->
      SubSeq(s, SepAt(s, sep, k - 1) + 1, SepAt(s, sep, k) - 1) ]

\* sep.join(parts)
RECURSIVE Join(_, _)
Join(sep, parts) ==
  IF parts = <<>> THEN <<>>
  ELSE IF Len(parts) = 1 THEN parts[1]
  ELSE parts[1] \o sep \o Join(sep, Tail(parts))

\* Python None (and the falsy empty string): `if not x` treats both alike.
None == <<>>

Truthy(x) == x # None

(***************************************************************************)
(* Semantic versions and ranges (the nodesemver library, as used by        *)
(* find_max_satisfying).  Versions have one-digit components.              *)
(***************************************************************************)

Digits == { "0", "1", "2", "3", "4", "5", "6", "7", "8", "9" }

DigitVal(ch) == Ord(ch) - Ord("0")

\* "M.m.p" -> <<M, m, p>>; anything else is not a version (<<>>).
ParseVersion(s) ==
  IF /\ Len(s) = 5
     /\ s[1] \in Digits /\ s[3] \in Digits /\ s[5] \in Digits
     /\ s[2] = "." /\ s[4] = "."
  THEN << DigitVal(s[1]), DigitVal(s[3]), DigitVal(s[5]) >>
  ELSE <<>>

VerLess(v, w) ==
  \/ v[1] < w[1]
  \/ v[1] = w[1] /\ v[2] < w[2]
  \/ v[1] = w[1] /\ v[2] = w[2] /\ v[3] < w[3]

\* A range expression: "" and "*" accept every version, "^v" and "~v" are the
\* caret and tilde ranges, "v" is exact; anything else is not a range.
ParseRange(r) ==
  IF r = <<>> \/ r = << "*" >> \/ r = << "^", "*" >> \/ r = << "~", "*" >>
  THEN [kind |-> "any", base |-> <<>>]
  ELSE IF StartsWith(r, "^") /\ ParseVersion(Tail(r)) # <<>>
  THEN [kind |-> "caret", base |-> ParseVersion(Tail(r))]
  ELSE IF StartsWith(r, "~") /\ ParseVersion(Tail(r)) # <<>>
  THEN [kind |-> "tilde", base |-> ParseVersion(Tail(r))]
  ELSE IF ParseVersion(r) # <<>>
  THEN [kind |-> "exact", base |-> ParseVersion(r)]
  ELSE [kind |-> "invalid", base |-> <<>>]

\* The first version outside a caret range.
CaretUpper(b) ==
  IF b[1] > 0 THEN << b[1] + 1, 0, 0 >>
  ELSE IF b[2] > 0 THEN << 0, b[2] + 1, 0 >>
  ELSE << 0, 0, b[3] + 1 >>

Satisfies(v, rg) ==
  CASE rg.kind = "any" -> TRUE
    [] rg.kind = "exact" -> v = rg.base
    [] rg.kind = "caret" -> ~VerLess(v, rg.base) /\ VerLess(v, CaretUpper(rg.base))
    [] rg.kind = "tilde" ->
         ~VerLess(v, rg.base) /\ VerLess(v, << rg.base[1], rg.base[2] + 1, 0 >>)
    [] OTHER -> FALSE

\* nodesemver.max_satisfying(versions, range): the greatest satisfying version of
\* the list, None when there is none or the range is not a range.
RECURSIVE MaxSatisfying(_, _)
MaxSatisfying(versions, r) ==
  IF versions = <<>> THEN None
  ELSE LET rest == MaxSatisfying(Tail(versions), r)
           v == Head(versions)
           pv == ParseVersion(v)
       IN IF pv # <<>> /\ Satisfies(pv, ParseRange(r))
          THEN IF rest # None /\ VerLess(pv, ParseVersion(rest)) THEN rest ELSE v
          ELSE rest

(***************************************************************************)
(* npm_utils.py                                                            *)
(***************************************************************************)

Latest == << "l", "a", "t", "e", "s", "t" >>

parse_version_range(r) ==
  IF r \in { << "*" >>, << "x" >>, Latest } THEN Latest ELSE r

\* versions is never empty where the code calls this.
find_max_satisfying(versions, r) ==
  IF parse_version_range(r) = Latest THEN StrMax(versions)
  ELSE MaxSatisfying(versions, parse_version_range(r))

(***************************************************************************)
(* The registry: what GET {NPM_REGISTRY_URL}/{name} answers.               *)
(* registry[name] describes a package: known (else the request fails with  *)
(* an HTTP error), catalog (the version keys in order, the last one being  *)
(* dist-tags.latest), deps and deps2 (what its 1.x and its 2.x versions    *)
(* declare) and carries (below).  PackageData builds the document served.  *)
(***************************************************************************)

Na == << "a" >>
Nb == << "b" >>
Nc == << "c" >>
Names == { Na, Nb, Nc }

V100 == << "1", ".", "0", ".", "0" >>
V110 == << "1", ".", "1", ".", "0" >>
V120 == << "1", ".", "2", ".", "0" >>
V200 == << "2", ".", "0", ".", "0" >>

Caret(v) == << "^" >> \o v
Tilde(v) == << "~" >> \o v

Dep(n, r) == [name |-> n, range |-> r]

\* One version document.  carries: the document has a "versions" key (the
\* catalog), as the documents of tests/test_conflicts.py do and those of
\* tests/test_npm_utils.py do not.
VersionDoc(n, v, deps, carries, catalog) ==
  [ version |-> v,
    dependencies |-> deps,
    tarball |-> n \o << "-" >> \o v,
    integrity |-> v \o << "-" >> \o n,
    carries |-> carries,
    versions |-> IF carries THEN catalog ELSE <<>> ]

Package(known, catalog, deps, deps2, carries) ==
  [known |-> known, catalog |-> catalog, deps |-> deps, deps2 |-> deps2,
   carries |-> carries]

\* The package document of n: dist-tags.latest and the version documents in key
\* order.
PackageData(n, p) ==
  [ latest |-> p.catalog[Len(p.catalog)],
    versions |->
      [ i \in 1..Len(p.catalog) |->
          VersionDoc(n, p.catalog[i],
                     IF ParseVersion(p.catalog[i])[1] >= 2 THEN p.deps2 ELSE p.deps,
                     p.carries, p.catalog) ] ]

Keys(pd) == [ i \in 1..Len(pd.versions) |-> pd.versions[i].version ]

DocOf(pd, v) == pd.versions[CHOOSE i \in 1..Len(pd.versions) : pd.versions[i].version = v]

\* get_package_info(package_name, version): the version document chosen for a
\* specifier, or the HTTP error of an unknown package.
get_package_info(reg, n, version) ==
  IF ~reg[n].known THEN [ok |-> FALSE, error |-> "HTTPStatusError", info |-> <<>>]
  ELSE
    LET pd == PackageData(n, reg[n])
        range == IF version = Latest THEN pd.latest ELSE version
        found == find_max_satisfying(Keys(pd), range)
        stripped == IF StartsWith(range, "^") \/ StartsWith(range, "~")
                    THEN LStrip(range, { "^", "~" }) ELSE range
        matching == IF Truthy(found) THEN found
                    ELSE IF \E i \in 1..Len(pd.versions) : pd.versions[i].version = stripped
                    THEN stripped
                    ELSE pd.latest
    IN [ok |-> TRUE, error |-> "", info |-> DocOf(pd, matching)]

(***************************************************************************)
(* conflicts.py: messages                                                  *)
(***************************************************************************)

NoConflictsMsg ==
  << "N", "o", " ", "c", "o", "n", "f", "l", "i", "c", "t", "s", " ", "d",
     "e", "t", "e", "c", "t", "e", "d", "." >>

ConflictPrefix ==
  << "P", "a", "c", "k", "a", "g", "e", " ", "'" >>

ConflictMiddle ==
  << "'", " ", "h", "a", "s", " ", "c", "o", "n", "f", "l", "i", "c", "t",
     "i", "n", "g", " ", "v", "e", "r", "s", "i", "o", "n", " ", "r", "e",
     "q", "u", "i", "r", "e", "m", "e", "n", "t", "s", ":", " " >>

ResolvedPrefix ==
  << "R", "e", "s", "o", "l", "v", "e", "d", " ", "c", "o", "n", "f", "l",
     "i", "c", "t", " ", "f", "o", "r", " ", "'" >>

ResolvedMiddle ==
  << "'", ":", " ", "u", "s", "i", "n", "g", " ", "v", "e", "r", "s", "i",
     "o", "n", " " >>

CommaSpace == << ",", " " >>

\* f"Package '{package}' has conflicting version requirements: {', '.join(versions)}"
ConflictMessage(package, versions) ==
  ConflictPrefix \o package \o ConflictMiddle \o Join(CommaSpace, versions)

\* f"Resolved conflict for '{package}': using version {compatible_version}"
ResolvedMessage(package, version) ==
  ResolvedPrefix \o package \o ResolvedMiddle \o version

\* conflict.split("'")[1]
ConflictPackage(conflict) == Split(conflict, "'")[2]

\* [v.strip() for v in conflict.split(":")[1].split(",")]
ConflictVersions(conflict) ==
  LET parts == Split(Split(conflict, ":")[2], ",")
  IN [ i \in 1..Len(parts) |-> Strip(parts[i]) ]

(***************************************************************************)
(* conflicts.py: pure parts                                                *)
(***************************************************************************)

TreeHas(t, package) == \E i \in 1..Len(t) : t[i].package = package

TreeVersions(t, package) ==
  IF TreeHas(t, package)
  THEN t[CHOOSE i \in 1..Len(t) : t[i].package = package].versions
  ELSE <<>>

InSeq(x, xs) == \E i \in 1..Len(xs) : xs[i] = x

\* add_to_dependency_tree, lines 50-54: create the package's list if it is
\* missing, append the specifier if the list does not hold it.
RecordSpecifier(t, package, version_range) ==
  LET t1 == IF TreeHas(t, package) THEN t
            ELSE Append(t, [package |-> package, versions |-> <<>>])
  IN [ i \in 1..Len(t1) |->
         IF t1[i].package = package /\ ~InSeq(version_range, t1[i].versions)
         THEN [t1[i] EXCEPT !.versions = Append(@, version_range)]
         ELSE t1[i] ]

\* A detector that reports every package that has a specifier.
IsConflicted_NonEmpty(versions) == Len(versions) > 0

\* find_conflicts, line 17: the test that makes a tree entry a conflict.
IsConflicted(versions) == Len(versions) > 1

\* find_conflicts, lines 13 and 16-21: one message per conflicted entry, in the
\* tree's key order.
ConflictsOf(t) ==
  LET hit == SelectSeq(t, LAMBDA e : IsConflicted(e.versions))
  IN [ i \in 1..Len(hit) |-> ConflictMessage(hit[i].package, hit[i].versions) ]

\* find_compatible_version, line 92: the version satisfies every range.
SatisfiesAll(version, version_ranges) ==
  \A i \in 1..Len(version_ranges) :
    Truthy(find_max_satisfying(<< version >>, version_ranges[i]))

\* find_compatible_version, lines 96-98: the final choice among the compatible
\* versions.
FinalRange(version_ranges) == << "^" >> \o LStrip(StrMin(version_ranges), { "^" })

\* find_compatible_version(package, version_ranges): raised names the exception
\* that leaves the function, value is the returned version or None.
find_compatible_version(reg, package, version_ranges) ==
  LET got == get_package_info(reg, package, Latest)
  IN IF ~got.ok THEN [raised |-> got.error, value |-> None]
     ELSE IF ~got.info.carries THEN [raised |-> "KeyError", value |-> None]
     ELSE
       LET all_versions == got.info.versions
           compatible_versions ==
             SelectSeq(all_versions, LAMBDA v : SatisfiesAll(v, version_ranges))
       IN [ raised |-> "",
            value |-> IF compatible_versions # <<>>
                      THEN find_max_satisfying(compatible_versions,
                                               FinalRange(version_ranges))
                      ELSE None ]

\* A dict that moves an updated key to the end.
DepSet_MoveToEnd(d, n, v) ==
  Append(SelectSeq(d, LAMBDA x : x.name # n), Dep(n, v))

\* dict[key] = value on a dict of name -> version: replace in place or append.
DepSet(d, n, v) ==
  IF \E i \in 1..Len(d) : d[i].name = n
  THEN [ i \in 1..Len(d) |-> IF d[i].name = n THEN Dep(n, v) ELSE d[i] ]
  ELSE Append(d, Dep(n, v))

\* A resolver that lists the unresolved conflicts first.
ResolveResult_UnresolvedFirst(res, unres, resolved_deps) ==
  [ok |-> Len(unres) = 0, messages |-> unres \o res, deps |-> resolved_deps]

\* resolve_conflicts, line 82: the returned triple.
ResolveResult(res, unres, resolved_deps) ==
  [ok |-> Len(unres) = 0, messages |-> res \o unres, deps |-> resolved_deps]

\* An orchestrator that hands an empty conflict list to resolve_conflicts.
NoConflictResult_ThroughResolver(deps) == ResolveResult(<<>>, <<>>, <<>>)

\* check_and_resolve_conflicts, line 110: the triple returned without conflicts.
NoConflictResult(deps) ==
  [ok |-> TRUE, messages |-> << NoConflictsMsg >>, deps |-> deps]

\* A generator that trusts the resolution.
LockRefused_Never(res) == FALSE

\* create_package_lock, line 115: the resolution is refused.
LockRefused(res) == ~res.ok

NodeModules ==
  << "n", "o", "d", "e", "_", "m", "o", "d", "u", "l", "e", "s", "/" >>

\* add_package_to_lock, line 137: f"{parent_path}node_modules/{package}"
PackagePath(parent_path, package) == parent_path \o NodeModules \o package

\* A generator that places nested packages at the top level.
ChildParent_Flat(package_path) == <<>>

\* add_package_to_lock, line 155: the parent path handed to the nested calls.
ChildParent(package_path) == package_path \o << "/" >>

\* lock_data["packages"][path] = entry: replace in place or append.
LockSet(packages, entry) ==
  IF \E i \in 1..Len(packages) : packages[i].path = entry.path
  THEN [ i \in 1..Len(packages) |->
           IF packages[i].path = entry.path THEN entry ELSE packages[i] ]
  ELSE Append(packages, entry)

(***************************************************************************)
(* State                                                                   *)
(***************************************************************************)

VARIABLES
  registry,      \* the registry's answers (fixed during a run)
  dependencies,  \* the argument of create_package_lock: the manifest, in key order
  pc,            \* where the call is
  raised,        \* the exception that left the call ("" while none)
  tree,          \* build_dependency_tree: dependency_tree
  visited,       \* build_dependency_tree: visited
  calls,         \* pending add_to_dependency_tree calls, next first
  encountered,   \* every (package, specifier) add_to_dependency_tree was called with
  invocations,   \* the calls of add_to_dependency_tree so far
  expanded,      \* per package, the metadata fetches of the tree builder
  conflicts,     \* the list find_conflicts returned
  resolved,      \* resolve_conflicts: resolved
  unresolved,    \* resolve_conflicts: unresolved
  resolved_dependencies, \* resolve_conflicts: resolved_dependencies
  result,        \* what check_and_resolve_conflicts returned
  lockPackages,  \* lock_data["packages"] without the root entry, in key order
  lockDependencies, \* lock_data["dependencies"], in key order
  lockCalls,     \* pending add_package_to_lock calls, next first
  lockWrites,    \* the paths written to lock_data["packages"], in order
  lockFetched,   \* the dependency chains whose metadata fetch succeeded
  lockFailed,    \* the dependency chains whose metadata fetch failed
  run,           \* which call of create_package_lock on this input this is
  firstLock,     \* the lock the first call returned (<<>> before)
  caller,        \* who called check_and_resolve_conflicts
  cliResolved,   \* cli.install: resolved ("" before the check returned)
  packageJson,   \* the file package.json
  fsLog,         \* the changes made to the file system, in order
  installed,     \* install_packages: installed
  download_queue, \* install_packages: download_queue
  installCalls,  \* pending install_package calls, next first
  requested,     \* every (name, specifier) install_package fetched successfully
  tasks,         \* the download tasks gathered, one per queue entry
  broken,        \* the packages whose tarball the registry fails to serve
  addArg,        \* add_package: package_arg
  returned       \* add_package: what the call returned

rerunVars == << run, firstLock >>
cliVars == << caller, cliResolved, packageJson, fsLog >>
installVars ==
  << installed, download_queue, installCalls, requested, tasks, broken >>
addVars == << addArg, returned >>

\* The state of the commands around create_package_lock.
appVars == << rerunVars, cliVars, installVars, addVars >>

vars ==
  << registry, dependencies, pc, raised, tree, visited, calls, encountered,
     invocations, expanded, conflicts, resolved, unresolved, resolved_dependencies, result,
     lockPackages, lockDependencies, lockCalls, lockWrites, lockFetched,
     lockFailed, appVars >>

buildVars == << tree, visited, calls, encountered, invocations, expanded >>
resolveVars == << resolved, unresolved, resolved_dependencies >>
lockVars ==
  << lockPackages, lockDependencies, lockCalls, lockWrites, lockFetched,
     lockFailed >>

(***************************************************************************)
(* Bounds and inputs                                                       *)
(***************************************************************************)

\* Entries of the manifest.
MaxManifest == 2

\* Nested add_package_to_lock frames the interpreter allows before the call
\* fails with RecursionError (sys.getrecursionlimit() in CPython).
MaxDepth == 3

\* Specifiers a patched build_dependency_tree records per package.
MaxSpecifiers == 2

FullCatalog == << V100, V110, V120, V200 >>

TopRanges == { Caret(V100), Caret(V200) }

\* Ordered dicts name -> string with at most n keys over the names ns.
DictsOver(ns, rs, n) ==
  { d \in UNION { [1..k -> { Dep(x, r) : x \in ns, r \in rs }] : k \in 0..n } :
      \A i, j \in 1..Len(d) : i # j => d[i].name # d[j].name }

Manifests == DictsOver({ Na, Nb }, TopRanges, MaxManifest)

\* The dependency lists that declare some of cands, in that order.
RECURSIVE DepLists(_)
DepLists(cands) ==
  IF cands = <<>> THEN { <<>> }
  ELSE LET rest == DepLists(Tail(cands))
       IN rest \cup { << Dep(Head(cands), r) >> \o t : r \in TopRanges, t \in rest }

\* Registries of the whole-program runs: a may depend on itself and on b, b on
\* c and on a, c may be unknown to the registry, and the 2.x versions either
\* declare what the 1.x versions declare or nothing.  Version documents are
\* those of the npm registry: they carry no "versions" key.
Registries ==
  { [ n \in Names |->
        Package(n # Nc \/ cKnown, FullCatalog,
                IF n = Na THEN aDeps ELSE IF n = Nb THEN bDeps ELSE <<>>,
                IF leaf2 \/ n = Nc THEN <<>>
                ELSE IF n = Na THEN aDeps ELSE bDeps,
                FALSE) ] :
      aDeps \in DepLists(<< Na, Nb >>), bDeps \in DepLists(<< Nc, Na >>),
      cKnown \in BOOLEAN, leaf2 \in BOOLEAN }

NoResult == [ok |-> FALSE, messages |-> <<>>, deps |-> <<>>]

(***************************************************************************)
(* create_package_lock(dependencies), step by step                         *)
(***************************************************************************)

\* The state common to every start: nothing computed yet.
Fresh ==
  /\ raised = ""
  /\ visited = {}
  /\ encountered = {}
  /\ invocations = 0
  /\ expanded = [n \in Names |-> 0]
  /\ conflicts = <<>>
  /\ resolved = <<>>
  /\ unresolved = <<>>
  /\ resolved_dependencies = <<>>
  /\ result = NoResult
  /\ lockPackages = <<>>
  /\ lockDependencies = <<>>
  /\ lockCalls = <<>>
  /\ lockWrites = <<>>
  /\ lockFetched = {}
  /\ lockFailed = {}

NoFile == [exists |-> FALSE, keys |-> <<>>, name |-> <<>>, dependencies |-> <<>>]

\* Nothing planned or downloaded yet.
NothingInstalled ==
  /\ installed = {}
  /\ download_queue = <<>>
  /\ installCalls = <<>>
  /\ requested = {}
  /\ tasks = <<>>

\* create_package_lock is called directly, not by a command.
Library ==
  /\ run = 1
  /\ firstLock = <<>>
  /\ caller = "create_package_lock"
  /\ cliResolved = ""
  /\ packageJson = NoFile
  /\ fsLog = <<>>
  /\ NothingInstalled
  /\ broken = {}
  /\ addArg = <<>>
  /\ returned = <<>>

\* build_dependency_tree, lines 26-30: an empty tree, and one call per manifest
\* entry in key order.
Init ==
  /\ Library
  /\ registry \in Registries
  /\ dependencies \in Manifests
  /\ pc = "build"
  /\ tree = <<>>
  /\ calls = [ i \in 1..Len(dependencies) |->
                 [package |-> dependencies[i].name,
                  version_range |-> dependencies[i].range] ]
  /\ Fresh

\* A builder without the visited test of line 45.
AlreadyVisited_Never(vis, package) == FALSE

\* add_to_dependency_tree, line 45.
AlreadyVisited(vis, package) == package \in vis

\* A builder that catches the failed fetch and goes on, as the lock generator
\* does.
Propagates_Swallowed(got) == FALSE

\* add_to_dependency_tree, lines 56-57: nothing catches the exception of a
\* failed fetch, so it leaves the builder and its callers.
Propagates(got) == ~got.ok

\* A builder that records the specifier before it tests visited.
RevisitRecord_Records(t, package, version_range) ==
  RecordSpecifier(t, package, version_range)

\* add_to_dependency_tree, lines 45-46: the call returns on a visited package
\* before lines 50-54, so the tree stays as it is.
RevisitRecord(t, package, version_range) == t

\* add_to_dependency_tree, lines 59-60: the nested calls, in key order.
NestedCalls(info) ==
  [ i \in 1..Len(info.dependencies) |->
      [package |-> info.dependencies[i].name,
       version_range |-> info.dependencies[i].range] ]

\* One call of add_to_dependency_tree (lines 35-60); its nested calls run next,
\* before the caller's remaining ones.
AddToTree ==
  /\ pc = "build"
  /\ calls # <<>>
  /\ LET c == Head(calls)
         got == get_package_info(registry, c.package, c.version_range)
     IN /\ encountered' = encountered \cup { << c.package, c.version_range >> }
        /\ invocations' = invocations + 1
        /\ IF AlreadyVisited(visited, c.package)
           THEN /\ calls' = Tail(calls)
                /\ tree' = RevisitRecord(tree, c.package, c.version_range)
                /\ UNCHANGED << pc, raised, visited, expanded >>
           ELSE /\ visited' = visited \cup { c.package }
                /\ tree' = RecordSpecifier(tree, c.package, c.version_range)
                /\ expanded' = [expanded EXCEPT ![c.package] = @ + 1]
                /\ IF Propagates(got)
                   THEN /\ calls' = <<>>
                        /\ pc' = "raised"
                        /\ raised' = got.error
                   ELSE /\ calls' = (IF got.ok THEN NestedCalls(got.info) ELSE <<>>)
                                       \o Tail(calls)
                        /\ UNCHANGED << pc, raised >>
  /\ UNCHANGED << registry, dependencies, appVars, conflicts, resolveVars, result, lockVars >>

\* build_dependency_tree returns (line 32) into find_conflicts (line 14).
BuildReturn ==
  /\ pc = "build"
  /\ calls = <<>>
  /\ pc' = "detect"
  /\ UNCHANGED << registry, dependencies, appVars, raised, buildVars, conflicts,
                  resolveVars, result, lockVars >>

\* find_conflicts, lines 16-21, returning through check_conflicts (line 8).
FindConflicts ==
  /\ pc = "detect"
  /\ conflicts' = ConflictsOf(tree)
  /\ pc' = "check"
  /\ UNCHANGED << registry, dependencies, appVars, raised, buildVars, resolveVars, result,
                  lockVars >>

\* check_and_resolve_conflicts, lines 108-110.
CheckAndResolve ==
  /\ pc = "check"
  /\ IF conflicts # <<>>
     THEN /\ pc' = "resolve"
          /\ UNCHANGED result
     ELSE /\ pc' = "checked"
          /\ result' = NoConflictResult(dependencies)
  /\ UNCHANGED << registry, dependencies, appVars, raised, buildVars, conflicts,
                  resolveVars, lockVars >>

\* resolve_conflicts, lines 69-80: one turn of the loop.
ResolveOne ==
  /\ pc = "resolve"
  /\ Len(resolved) + Len(unresolved) < Len(conflicts)
  /\ LET conflict == conflicts[Len(resolved) + Len(unresolved) + 1]
         package == ConflictPackage(conflict)
         versions == ConflictVersions(conflict)
         found == find_compatible_version(registry, package, versions)
     IN IF found.raised # ""
        THEN /\ pc' = "raised"
             /\ raised' = found.raised
             /\ UNCHANGED resolveVars
        ELSE /\ UNCHANGED << pc, raised >>
             /\ IF Truthy(found.value)
                THEN /\ resolved' = Append(resolved, ResolvedMessage(package, found.value))
                     /\ resolved_dependencies' =
                          DepSet(resolved_dependencies, package, found.value)
                     /\ UNCHANGED unresolved
                ELSE /\ unresolved' = Append(unresolved, conflict)
                     /\ UNCHANGED << resolved, resolved_dependencies >>
  /\ UNCHANGED << registry, dependencies, appVars, buildVars, conflicts, result, lockVars >>

\* resolve_conflicts returns (line 82) through check_and_resolve_conflicts
\* (line 109).
ResolveReturn ==
  /\ pc = "resolve"
  /\ Len(resolved) + Len(unresolved) = Len(conflicts)
  /\ result' = ResolveResult(resolved, unresolved, resolved_dependencies)
  /\ pc' = "checked"
  /\ UNCHANGED << registry, dependencies, appVars, raised, buildVars, conflicts,
                  resolveVars, lockVars >>

Reverse(xs) == [ i \in 1..Len(xs) |-> xs[Len(xs) + 1 - i] ]

\* A generator that walks the dependencies in an order that changes from one
\* call to the next, as the iteration of a set of strings does.
LockOrder_Unstable(deps) == IF run = 1 THEN deps ELSE Reverse(deps)

\* create_package_lock, line 160: resolved_deps.items(), a dict, in key order.
LockOrder(deps) == deps

\* create_package_lock, lines 114-131 and 160-161: refuse an unresolved
\* resolution, else start the lock with one call per resolved dependency.
LockValidate ==
  /\ pc = "checked"
  /\ caller # "install"
  /\ IF LockRefused(result)
     THEN /\ pc' = "raised"
          /\ raised' = "ValueError"
          /\ UNCHANGED lockCalls
     ELSE /\ pc' = "lock"
          /\ lockCalls' =
               [ i \in 1..Len(result.deps) |->
                   [package |-> LockOrder(result.deps)[i].name,
                    version |-> LockOrder(result.deps)[i].range,
                    parent_path |-> <<>>,
                    chain |-> << LockOrder(result.deps)[i].name >>] ]
          /\ UNCHANGED raised
  /\ UNCHANGED << registry, dependencies, appVars, buildVars, conflicts, resolveVars,
                  result, lockPackages, lockDependencies, lockWrites,
                  lockFetched, lockFailed >>

\* An interpreter without a limit on the nesting of calls.
LockFetch_Unlimited(reg, c) == get_package_info(reg, c.package, c.version)

\* add_package_to_lock, line 135 inside the try: the fetch, which also fails
\* once the nesting exceeds what the interpreter allows.
LockFetch(reg, c) ==
  IF Len(c.chain) > MaxDepth
  THEN [ok |-> FALSE, error |-> "RecursionError", info |-> <<>>]
  ELSE get_package_info(reg, c.package, c.version)

\* A generator whose failed fetch ends the whole descent.
RemainingAfterFailure_Abort(pending) == <<>>

\* add_package_to_lock, lines 157-158: the exception is caught in the failing
\* call, so the callers go on with their remaining nested calls.
RemainingAfterFailure(pending) == Tail(pending)

\* add_package_to_lock, lines 139-144: the entry written for a package.
LockEntry(package_path, info) ==
  [ path |-> package_path,
    version |-> info.version,
    resolved |-> info.tarball,
    integrity |-> info.integrity,
    requires |-> info.dependencies ]

\* add_package_to_lock, lines 153-155: the nested calls, in key order.
NestedLockCalls(c, package_path, info) ==
  [ i \in 1..Len(info.dependencies) |->
      [package |-> info.dependencies[i].name,
       version |-> info.dependencies[i].range,
       parent_path |-> ChildParent(package_path),
       chain |-> Append(c.chain, info.dependencies[i].name)] ]

\* One call of add_package_to_lock (lines 133-158); its nested calls run next,
\* before the caller's remaining ones.  A failed fetch is caught and printed.
AddPackageToLock ==
  /\ pc = "lock"
  /\ lockCalls # <<>>
  /\ LET c == Head(lockCalls)
         got == LockFetch(registry, c)
         package_path == PackagePath(c.parent_path, c.package)
     IN IF got.ok
        THEN /\ lockPackages' = LockSet(lockPackages, LockEntry(package_path, got.info))
             /\ lockWrites' = Append(lockWrites, package_path)
             /\ lockDependencies' =
                  IF c.parent_path = <<>>
                  THEN DepSet(lockDependencies, c.package, got.info.version)
                  ELSE lockDependencies
             /\ lockCalls' = NestedLockCalls(c, package_path, got.info) \o Tail(lockCalls)
             /\ lockFetched' = lockFetched \cup { c.chain }
             /\ UNCHANGED lockFailed
        ELSE /\ lockCalls' = RemainingAfterFailure(lockCalls)
             /\ lockFailed' = lockFailed \cup { c.chain }
             /\ UNCHANGED << lockPackages, lockWrites, lockDependencies, lockFetched >>
  /\ UNCHANGED << registry, dependencies, appVars, pc, raised, buildVars, conflicts,
                  resolveVars, result >>

\* create_package_lock returns lock_data (line 163).
LockReturn ==
  /\ pc = "lock"
  /\ lockCalls = <<>>
  /\ pc' = "done"
  /\ UNCHANGED << registry, dependencies, appVars, raised, buildVars, conflicts,
                  resolveVars, result, lockVars >>

\* The program as it is: the tree comes from build_dependency_tree.
Next ==
  \/ AddToTree
  \/ BuildReturn
  \/ FindConflicts
  \/ CheckAndResolve
  \/ LockValidate
  \/ AddPackageToLock
  \/ LockReturn

Spec == Init /\ [][Next]_vars

(***************************************************************************)
(* The same call with build_dependency_tree patched to return a given      *)
(* tree, as tests/test_conflicts.py patches it (test_find_conflicts): the   *)
(* conflict branch of check_and_resolve_conflicts, resolve_conflicts and    *)
(* the refusal of create_package_lock run on trees that hold conflicts.     *)
(***************************************************************************)

TreeRanges == { Caret(V100), Caret(V120), Caret(V200) }

\* Lists of distinct specifiers, one to MaxSpecifiers long.
SpecifierLists ==
  { l \in UNION { [1..k -> TreeRanges] : k \in 1..MaxSpecifiers } :
      \A i, j \in 1..Len(l) : i # j => l[i] # l[j] }

\* Dependency trees over a and b: distinct keys, lists without duplicates.
Trees ==
  { t \in UNION { [1..k -> [package : { Na, Nb }, versions : SpecifierLists]] :
                    k \in 0..2 } :
      \A i, j \in 1..Len(t) : i # j => t[i].package # t[j].package }

PatchedManifests == DictsOver({ Na, Nb }, { Caret(V100) }, MaxManifest)

Catalogs == { << V100, V110, V120 >>, << V100, V110, V200 >> }

\* Registries of the patched runs: a depends on b, the catalogs of a and b
\* vary, and the version documents carry the catalog or not.
PatchedRegistries ==
  { [ n \in Names |->
        Package(TRUE,
                IF n = Na THEN aCat ELSE IF n = Nb THEN bCat ELSE FullCatalog,
                IF n = Na THEN << Dep(Nb, Caret(V100)) >> ELSE <<>>,
                <<>>, carries) ] :
      aCat \in Catalogs, bCat \in Catalogs, carries \in BOOLEAN }

InitPatched ==
  /\ Library
  /\ registry \in PatchedRegistries
  /\ dependencies \in PatchedManifests
  /\ pc = "detect"
  /\ tree \in Trees
  /\ calls = <<>>
  /\ Fresh

NextPatched ==
  \/ FindConflicts
  \/ CheckAndResolve
  \/ ResolveOne
  \/ ResolveReturn
  \/ LockValidate
  \/ AddPackageToLock
  \/ LockReturn

SpecPatched == InitPatched /\ [][NextPatched]_vars

(***************************************************************************)
(* create_package_lock called twice on the same dependencies, against the   *)
(* same registry.                                                          *)
(***************************************************************************)

\* lock_data (lines 118-131) as create_package_lock returns it: the root entry,
\* the package entries and the top-level dependencies, each in key order.
LockData ==
  [ root |-> dependencies,
    packages |-> lockPackages,
    dependencies |-> lockDependencies ]

\* The first call has returned its lock; the second call starts on the same
\* input (build_dependency_tree, lines 26-30).
RunAgain ==
  /\ pc = "done"
  /\ caller = "create_package_lock"
  /\ run = 1
  /\ run' = 2
  /\ firstLock' = LockData
  /\ pc' = "build"
  /\ tree' = <<>>
  /\ calls' = [ i \in 1..Len(dependencies) |->
                  [package |-> dependencies[i].name,
                   version_range |-> dependencies[i].range] ]
  /\ visited' = {}
  /\ encountered' = {}
  /\ invocations' = 0
  /\ expanded' = [n \in Names |-> 0]
  /\ conflicts' = <<>>
  /\ resolved' = <<>>
  /\ unresolved' = <<>>
  /\ resolved_dependencies' = <<>>
  /\ result' = NoResult
  /\ lockPackages' = <<>>
  /\ lockDependencies' = <<>>
  /\ lockCalls' = <<>>
  /\ lockWrites' = <<>>
  /\ lockFetched' = {}
  /\ lockFailed' = {}
  /\ UNCHANGED << registry, dependencies, raised, cliVars, installVars, addVars >>

NextTwice ==
  \/ AddToTree
  \/ BuildReturn
  \/ FindConflicts
  \/ CheckAndResolve
  \/ LockValidate
  \/ AddPackageToLock
  \/ LockReturn
  \/ RunAgain

\* The registries whose 2.x versions declare what the 1.x versions declare.
TwiceRegistries ==
  { r \in Registries : \A n \in Names : r[n].deps2 = r[n].deps }

InitTwice ==
  /\ Init
  /\ registry \in TwiceRegistries

SpecTwice == InitTwice /\ [][NextTwice]_vars

(***************************************************************************)
(* The program on registries whose catalogs lack the 2.x versions, so that  *)
(* a specifier can match no version of a known package.                     *)
(***************************************************************************)

SparseCatalog == << V100, V110, V120 >>

\* a declares some of b and c; b has no 2.x version.
SparseRegistries ==
  { [ n \in Names |->
        Package(TRUE, IF n = Nb THEN SparseCatalog ELSE FullCatalog,
                IF n = Na THEN aDeps ELSE <<>>, <<>>, FALSE) ] :
      aDeps \in DepLists(<< Nb, Nc >>) }

InitSparse ==
  /\ Library
  /\ registry \in SparseRegistries
  /\ dependencies \in Manifests
  /\ pc = "build"
  /\ tree = <<>>
  /\ calls = [ i \in 1..Len(dependencies) |->
                 [package |-> dependencies[i].name,
                  version_range |-> dependencies[i].range] ]
  /\ Fresh

SpecSparse == InitSparse /\ [][Next]_vars

(***************************************************************************)
(* install.py: install_packages(resolved_dependencies) called with a dict, *)
(* as cli.install calls it: the planning of the downloads by               *)
(* install_package and the concurrent downloads of asyncio.gather.         *)
(***************************************************************************)

\* install.py get_package_info (lines 31-76): like that of npm_utils, except
\* that "latest", "*" and "x" go to dist-tags.latest; its own find_max_satisfying
\* (lines 19-28) is that of npm_utils.
install_get_package_info(reg, n, version) ==
  IF ~reg[n].known THEN [ok |-> FALSE, error |-> "HTTPStatusError", info |-> <<>>]
  ELSE
    LET pd == PackageData(n, reg[n])
        found == IF version = Latest \/ version \in { << "*" >>, << "x" >> }
                 THEN pd.latest
                 ELSE find_max_satisfying(Keys(pd), version)
        stripped == IF StartsWith(version, "^") \/ StartsWith(version, "~")
                    THEN LStrip(version, { "^", "~" }) ELSE version
        matching == IF Truthy(found) THEN found
                    ELSE IF \E i \in 1..Len(pd.versions) : pd.versions[i].version = stripped
                    THEN stripped
                    ELSE pd.latest
    IN [ok |-> TRUE, error |-> "", info |-> DocOf(pd, matching)]

\* A planner that tells packages apart by name alone.
PackageKey_NameOnly(package_name, version) == package_name

\* install_package, lines 114 and 122: f"{package_name}@{version}"
PackageKey(package_name, version) == package_name \o << "@" >> \o version

\* install_packages, line 163.
NodeModulesDir == << "n", "o", "d", "e", "_", "m", "o", "d", "u", "l", "e", "s" >>

\* os.path.join(a, b) on POSIX.
PathJoin(a, b) ==
  IF StartsWith(b, "/") THEN b
  ELSE IF a = <<>> \/ a[Len(a)] = "/" THEN a \o b
  ELSE a \o << "/" >> \o b

TgzSuffix == << ".", "t", "g", "z" >>

\* A download that names the file after the package alone.
FilePath_NoVersion(target_dir, package_name, version) ==
  PathJoin(PathJoin(target_dir, package_name), package_name \o TgzSuffix)

\* download_package_async, lines 94-97: the file the tarball is written to.
FilePath(target_dir, package_name, version) ==
  PathJoin(PathJoin(target_dir, package_name),
           package_name \o << "-" >> \o version \o TgzSuffix)

\* The file of a queue entry.
EntryFile(q) == FilePath(q.target_dir, q.package_name, q.version)

MkDir(path) == [op |-> "makedirs", path |-> path]

WriteFile(path) == [op |-> "write", path |-> path]

\* install_package, lines 132-137: the nested calls, in key order.
NestedInstallCalls(info) ==
  [ i \in 1..Len(info.dependencies) |->
      [package_name |-> info.dependencies[i].name,
       version |-> info.dependencies[i].range] ]

\* install_packages, lines 157-175: nothing to install, or node_modules is made
\* and install_package is called for each dependency in key order.
InstallStart ==
  /\ pc = "install"
  /\ IF dependencies = <<>>
     THEN /\ pc' = "finished"
          /\ UNCHANGED << fsLog, installCalls >>
     ELSE /\ pc' = "plan"
          /\ fsLog' = Append(fsLog, MkDir(NodeModulesDir))
          /\ installCalls' =
               [ i \in 1..Len(dependencies) |->
                   [package_name |-> dependencies[i].name,
                    version |-> dependencies[i].range] ]
  /\ UNCHANGED << registry, dependencies, raised, buildVars, conflicts,
                  resolveVars, result, lockVars, rerunVars, caller, cliResolved,
                  packageJson, installed, download_queue, requested, tasks,
                  broken, addVars >>

\* One call of install_package (lines 106-141); its nested calls run next,
\* before the caller's remaining ones.  An exception is caught in the call and
\* printed as a warning.
InstallPackage ==
  /\ pc = "plan"
  /\ installCalls # <<>>
  /\ LET c == Head(installCalls)
         got == install_get_package_info(registry, c.package_name, c.version)
         actual_version == got.info.version
         actual_package_key == PackageKey(c.package_name, actual_version)
     IN /\ requested' = requested \cup { << c.package_name, c.version >> }
        /\ IF PackageKey(c.package_name, c.version) \in installed
           THEN /\ installCalls' = Tail(installCalls)
                /\ UNCHANGED << installed, download_queue >>
           ELSE IF ~got.ok
           THEN /\ installCalls' = Tail(installCalls)
                /\ UNCHANGED << installed, download_queue >>
           ELSE IF actual_package_key \in installed
           THEN /\ installCalls' = Tail(installCalls)
                /\ UNCHANGED << installed, download_queue >>
           ELSE /\ download_queue' =
                     Append(download_queue,
                            [package_name |-> c.package_name,
                             version |-> actual_version,
                             target_dir |-> NodeModulesDir,
                             package_info |-> got.info])
                /\ installed' = installed \cup { actual_package_key }
                /\ installCalls' = NestedInstallCalls(got.info) \o Tail(installCalls)
  /\ UNCHANGED << registry, dependencies, pc, raised, buildVars, conflicts,
                  resolveVars, result, lockVars, rerunVars, cliVars, tasks,
                  broken, addVars >>

\* install_packages, lines 181-199: asyncio.run(download_all()) gathers one
\* download_package_async per queue entry; each runs up to its request.
StartDownloads ==
  /\ pc = "plan"
  /\ installCalls = <<>>
  /\ tasks' = [ i \in 1..Len(download_queue) |-> "waiting" ]
  /\ pc' = "download"
  /\ UNCHANGED << registry, dependencies, raised, buildVars, conflicts,
                  resolveVars, result, lockVars, rerunVars, cliVars, installed,
                  download_queue, installCalls, requested, broken, addVars >>

\* download_package_async, lines 91-101, for one task whose response arrived:
\* raise_for_status fails, or the file is written.
Download(i) ==
  /\ pc = "download"
  /\ tasks[i] = "waiting"
  /\ IF download_queue[i].package_name \in broken
     THEN /\ tasks' = [tasks EXCEPT ![i] = "failed"]
          /\ UNCHANGED fsLog
     ELSE /\ tasks' = [tasks EXCEPT ![i] = "written"]
          /\ fsLog' = Append(fsLog, WriteFile(EntryFile(download_queue[i])))
  /\ UNCHANGED << registry, dependencies, pc, raised, buildVars, conflicts,
                  resolveVars, result, lockVars, rerunVars, caller, cliResolved,
                  packageJson, installed, download_queue, installCalls,
                  requested, broken, addVars >>

DownloadOne == \E i \in 1..Len(tasks) : Download(i)

\* asyncio.run, once download_all has raised: the tasks still running are
\* cancelled.
AfterFailure(ts) ==
  [ i \in 1..Len(ts) |-> IF ts[i] = "waiting" THEN "cancelled" ELSE ts[i] ]

\* install_packages, lines 190-199 and 203-206: gather hands the first
\* exception of a task to download_all, asyncio.run ends with it and
\* install_packages raises it again.
GatherRaises ==
  /\ pc = "download"
  /\ \E i \in 1..Len(tasks) : tasks[i] = "failed"
  /\ tasks' = AfterFailure(tasks)
  /\ pc' = "raised"
  /\ raised' = "HTTPStatusError"
  /\ UNCHANGED << registry, dependencies, buildVars, conflicts, resolveVars,
                  result, lockVars, rerunVars, cliVars, installed,
                  download_queue, installCalls, requested, broken, addVars >>

\* install_packages, lines 201-202: every download is done.
DownloadsDone ==
  /\ pc = "download"
  /\ \A i \in 1..Len(tasks) : tasks[i] = "written"
  /\ pc' = "finished"
  /\ UNCHANGED << registry, dependencies, raised, buildVars, conflicts,
                  resolveVars, result, lockVars, rerunVars, cliVars,
                  installVars, addVars >>

InstallRanges == TopRanges \cup { V120 }

InstallManifests == DictsOver({ Na, Nb }, InstallRanges, MaxManifest)

\* a declares some of b and c, b may declare a, and the registry does not know
\* c.
InstallRegistries ==
  { [ n \in Names |->
        Package(n # Nc, FullCatalog,
                IF n = Na THEN aDeps ELSE IF n = Nb THEN bDeps ELSE <<>>,
                IF n = Na THEN aDeps ELSE IF n = Nb THEN bDeps ELSE <<>>,
                FALSE) ] :
      aDeps \in DepLists(<< Nb, Nc >>), bDeps \in DepLists(<< Na >>) }

InitInstall ==
  /\ registry \in InstallRegistries
  /\ dependencies \in InstallManifests
  /\ broken \in { {}, { Nb } }
  /\ pc = "install"
  /\ tree = <<>>
  /\ calls = <<>>
  /\ Fresh
  /\ run = 1
  /\ firstLock = <<>>
  /\ caller = "install_packages"
  /\ cliResolved = ""
  /\ packageJson = NoFile
  /\ fsLog = <<>>
  /\ NothingInstalled
  /\ addArg = <<>>
  /\ returned = <<>>

NextInstall ==
  \/ InstallStart
  \/ InstallPackage
  \/ StartDownloads
  \/ DownloadOne
  \/ GatherRaises
  \/ DownloadsDone

SpecInstall == InitInstall /\ [][NextInstall]_vars

(***************************************************************************)
(* cli.py: the install command.                                            *)
(***************************************************************************)

PackageJsonPath == << "p", "a", "c", "k", "a", "g", "e", ".", "j", "s", "o", "n" >>

PackageLockPath == << "p", "a", "c", "k", "a", "g", "e", "-", "l", "o", "c", "k", ".", "j", "s", "o", "n" >>

\* package_json["dependencies"] = value: the key keeps its place, or is added
\* last.
SetDependencies(pj, deps) ==
  [pj EXCEPT !.keys = IF \E i \in 1..Len(@) : @[i] = "dependencies"
                      THEN @ ELSE Append(@, "dependencies"),
             !.dependencies = deps]

\* The start of check_and_resolve_conflicts or create_package_lock on deps: the
\* locals of an earlier call are gone.
Restart(deps) ==
  /\ dependencies' = deps
  /\ pc' = "build"
  /\ tree' = <<>>
  /\ calls' = [ i \in 1..Len(deps) |->
                  [package |-> deps[i].name, version_range |-> deps[i].range] ]
  /\ visited' = {}
  /\ encountered' = {}
  /\ invocations' = 0
  /\ expanded' = [n \in Names |-> 0]
  /\ conflicts' = <<>>
  /\ resolved' = <<>>
  /\ unresolved' = <<>>
  /\ resolved_dependencies' = <<>>
  /\ result' = NoResult

\* install, lines 31-36: package.json is read and check_and_resolve_conflicts
\* is called on its dependencies.
CliRead ==
  /\ pc = "cli"
  /\ IF packageJson.exists
     THEN /\ Restart(packageJson.dependencies)
          /\ UNCHANGED raised
     ELSE /\ pc' = "raised"
          /\ raised' = "FileNotFoundError"
          /\ UNCHANGED << dependencies, buildVars, conflicts, resolveVars, result >>
  /\ UNCHANGED << registry, lockVars, appVars >>

\* A command that goes on whatever the resolution said.
CliProceeds_Always(res) == TRUE

\* install, line 41: if resolved.
CliProceeds(res) == res.ok

\* install, lines 35-59, once check_and_resolve_conflicts has returned: on
\* success package.json is rewritten with the resolved dependencies (lines
\* 43-45) and write_package_lock calls create_package_lock on them (line 49,
\* conflicts.py:167); otherwise the command ends with a message.
CliBranch ==
  /\ pc = "checked"
  /\ caller = "install"
  /\ cliResolved' = IF result.ok THEN "True" ELSE "False"
  /\ IF CliProceeds(result)
     THEN /\ packageJson' = SetDependencies(packageJson, result.deps)
          /\ fsLog' = Append(fsLog, WriteFile(PackageJsonPath))
          /\ caller' = "write_package_lock"
          /\ Restart(result.deps)
     ELSE /\ pc' = "finished"
          /\ UNCHANGED << packageJson, fsLog, caller, dependencies, buildVars,
                          conflicts, resolveVars, result >>
  /\ UNCHANGED << registry, raised, lockVars, rerunVars, installVars, addVars >>

\* write_package_lock, lines 168-169, and install, line 53: the lock
\* create_package_lock returned is written, then install_packages is called
\* with the resolved dependencies.
CliWriteLock ==
  /\ pc = "done"
  /\ caller = "write_package_lock"
  /\ fsLog' = Append(fsLog, WriteFile(PackageLockPath))
  /\ pc' = "install"
  /\ UNCHANGED << registry, dependencies, raised, buildVars, conflicts,
                  resolveVars, result, lockVars, rerunVars, caller, cliResolved,
                  packageJson, installVars, addVars >>

CliManifests == DictsOver({ Na, Nb }, TopRanges, MaxManifest)

\* What a patched check_and_resolve_conflicts returns to the command, as in
\* tests/test_cli.py.
PatchedResults ==
  { [ok |-> FALSE, messages |-> << ConflictPrefix >>, deps |-> <<>>] }
    \cup { [ok |-> okay, messages |-> << ResolvedPrefix >>,
            deps |-> << Dep(Na, v) >>] : okay \in BOOLEAN, v \in { V120, V200 } }

\* The command starts on a package.json, or has just got the answer of a
\* patched check_and_resolve_conflicts.
InitCli ==
  /\ registry \in InstallRegistries
  /\ packageJson \in
       { [exists |-> x, keys |-> << "name", "dependencies" >>, name |-> Na,
          dependencies |-> d] : x \in BOOLEAN, d \in CliManifests }
  /\ broken \in { {}, { Nb } }
  /\ tree = <<>>
  /\ calls = <<>>
  /\ raised = ""
  /\ visited = {}
  /\ encountered = {}
  /\ invocations = 0
  /\ expanded = [n \in Names |-> 0]
  /\ conflicts = <<>>
  /\ resolved = <<>>
  /\ unresolved = <<>>
  /\ resolved_dependencies = <<>>
  /\ lockPackages = <<>>
  /\ lockDependencies = <<>>
  /\ lockCalls = <<>>
  /\ lockWrites = <<>>
  /\ lockFetched = {}
  /\ lockFailed = {}
  /\ \/ /\ pc = "cli"
        /\ dependencies = <<>>
        /\ result = NoResult
     \/ /\ pc = "checked"
        /\ packageJson.exists
        /\ dependencies = packageJson.dependencies
        /\ result \in PatchedResults
  /\ run = 1
  /\ firstLock = <<>>
  /\ caller = "install"
  /\ cliResolved = ""
  /\ fsLog = <<>>
  /\ NothingInstalled
  /\ addArg = <<>>
  /\ returned = <<>>

NextCli ==
  \/ CliRead
  \/ AddToTree
  \/ BuildReturn
  \/ FindConflicts
  \/ CheckAndResolve
  \/ CliBranch
  \/ LockValidate
  \/ AddPackageToLock
  \/ LockReturn
  \/ CliWriteLock
  \/ InstallStart
  \/ InstallPackage
  \/ StartDownloads
  \/ DownloadOne
  \/ GatherRaises
  \/ DownloadsDone

SpecCli == InitCli /\ [][NextCli]_vars

(***************************************************************************)
(* add.py: add_package(package_arg).                                       *)
(***************************************************************************)

\* [a-zA-Z0-9-], as far as the characters used go.
NameChars ==
  { Alphabet[i] : i \in { i \in 1..Len(Alphabet) : Ord("a") <= i /\ i <= Ord("x") } }
    \cup Digits \cup { "-", "P", "R" }

\* [a-zA-Z0-9-]+(?:/[a-zA-Z0-9-]+)?
IsNameBody(s) ==
  LET parts == Split(s, "/")
  IN /\ Len(parts) \in { 1, 2 }
     /\ \A i \in 1..Len(parts) :
          parts[i] # <<>> /\ \A k \in 1..Len(parts[i]) : parts[i][k] \in NameChars

\* parse_package_name, lines 8-15: the regular expression
\* ^(@?[a-zA-Z0-9-]+(?:/[a-zA-Z0-9-]+)?)(?:@([^@]+))?$ ; no match raises
\* ValueError, a missing version is None.
parse_package_name(package_arg) ==
  LET scoped == StartsWith(package_arg, "@")
      rest == IF scoped THEN Tail(package_arg) ELSE package_arg
      parts == Split(rest, "@")
      name == (IF scoped THEN << "@" >> ELSE <<>>) \o parts[1]
  IN IF Len(parts) <= 2 /\ IsNameBody(parts[1]) /\ (Len(parts) = 2 => parts[2] # <<>>)
     THEN [ok |-> TRUE, name |-> name,
           version |-> IF Len(parts) = 2 THEN parts[2] ELSE None]
     ELSE [ok |-> FALSE, name |-> <<>>, version |-> None]

\* get_latest_version, lines 18-21.
get_latest_version(reg, package_name) ==
  LET got == get_package_info(reg, package_name, Latest)
  IN [ok |-> got.ok, error |-> got.error,
      version |-> IF got.ok THEN got.info.version ELSE <<>>]

\* add_package, lines 28-30: the file written when package.json is missing.
EmptyPackageJson ==
  [exists |-> TRUE, keys |-> << "dependencies" >>, name |-> <<>>,
   dependencies |-> <<>>]

\* add_package (lines 24-51), as a whole.
AddPackage ==
  /\ pc = "add"
  /\ LET parsed == parse_package_name(addArg)
         file == IF packageJson.exists THEN packageJson ELSE EmptyPackageJson
         created == IF packageJson.exists THEN <<>>
                    ELSE << WriteFile(PackageJsonPath) >>
         latest == get_latest_version(registry, parsed.name)
         version == IF parsed.version = None THEN latest.version ELSE parsed.version
         known == \E i \in 1..Len(file.dependencies) :
                     file.dependencies[i].name = parsed.name
     IN IF ~parsed.ok
        THEN /\ pc' = "raised"
             /\ raised' = "ValueError"
             /\ UNCHANGED << packageJson, fsLog, returned >>
        ELSE IF parsed.version = None /\ ~latest.ok
        THEN /\ pc' = "raised"
             /\ raised' = latest.error
             /\ packageJson' = file
             /\ fsLog' = fsLog \o created
             /\ UNCHANGED returned
        ELSE /\ pc' = "added"
             /\ packageJson' =
                  SetDependencies(file, DepSet(file.dependencies, parsed.name,
                                               << "^" >> \o version))
             /\ fsLog' = fsLog \o created \o << WriteFile(PackageJsonPath) >>
             /\ returned' = [existed |-> known, package_name |-> parsed.name,
                             version |-> version]
             /\ UNCHANGED raised
  /\ UNCHANGED << registry, dependencies, buildVars, conflicts, resolveVars,
                  result, lockVars, rerunVars, caller, cliResolved, installVars,
                  addArg >>

\* name, name@version, a version with a caret, an unknown package and an
\* argument with two @.
AddArgs ==
  { Na, Nc, Nb \o << "@" >> \o V110, Na \o << "@" >> \o Caret(V200),
    Nc \o << "@" >> \o V100, Na \o << "@", "1", "@", "2" >> }

\* package.json is missing, or holds a name and dependencies in either order,
\* or a name alone.
AddFiles ==
  { NoFile }
    \cup { [exists |-> TRUE, keys |-> k, name |-> Nc, dependencies |-> d] :
             k \in { << "name", "dependencies" >>, << "dependencies", "name" >> },
             d \in DictsOver({ Na, Nb }, { Caret(V100) }, MaxManifest) }
    \cup { [exists |-> TRUE, keys |-> << "name" >>, name |-> Nc, dependencies |-> <<>>] }

\* The registry knows a and b, and c or not.
AddRegistries ==
  { [ n \in Names |-> Package(n # Nc \/ cKnown, FullCatalog, <<>>, <<>>, FALSE) ] :
      cKnown \in BOOLEAN }

InitAdd ==
  /\ registry \in AddRegistries
  /\ packageJson \in AddFiles
  /\ addArg \in AddArgs
  /\ dependencies = <<>>
  /\ pc = "add"
  /\ tree = <<>>
  /\ calls = <<>>
  /\ Fresh
  /\ run = 1
  /\ firstLock = <<>>
  /\ caller = "add"
  /\ cliResolved = ""
  /\ fsLog = <<>>
  /\ NothingInstalled
  /\ broken = {}
  /\ returned = <<>>

NextAdd == AddPackage

SpecAdd == InitAdd /\ [][NextAdd]_vars

(***************************************************************************)
(* conflicts.py: resolve_conflicts called on one conflict, as                *)
(* tests/test_conflicts.py does.                                           *)
(***************************************************************************)

V111 == << "1", ".", "1", ".", "1" >>

\* Caret, tilde and exact specifiers.
ResolverRanges ==
  { Caret(V100), Caret(V110), Tilde(V110), Tilde(V111), V110, V111 }

\* Lists of distinct specifiers, one to MaxSpecifiers long.
ResolverLists ==
  { l \in UNION { [1..k -> ResolverRanges] : k \in 1..MaxSpecifiers } :
      \A i, j \in 1..Len(l) : i # j => l[i] # l[j] }

ResolverCatalogs ==
  { << V100, V110, V111 >>, << V100, V110, V120 >>, << V110, V111, V200 >> }

\* The version documents carry the catalog, as the mock of
\* tests/test_conflicts.py does.
ResolverRegistries ==
  { [ n \in Names |-> Package(TRUE, cat, <<>>, <<>>, TRUE) ] :
      cat \in ResolverCatalogs }

InitResolver ==
  /\ Library
  /\ registry \in ResolverRegistries
  /\ dependencies = <<>>
  /\ pc = "resolve"
  /\ tree = <<>>
  /\ calls = <<>>
  /\ raised = ""
  /\ visited = {}
  /\ encountered = {}
  /\ invocations = 0
  /\ expanded = [n \in Names |-> 0]
  /\ conflicts \in { << ConflictMessage(Na, l) >> : l \in ResolverLists }
  /\ resolved = <<>>
  /\ unresolved = <<>>
  /\ resolved_dependencies = <<>>
  /\ result = NoResult
  /\ lockPackages = <<>>
  /\ lockDependencies = <<>>
  /\ lockCalls = <<>>
  /\ lockWrites = <<>>
  /\ lockFetched = {}
  /\ lockFailed = {}

NextResolver ==
  \/ ResolveOne
  \/ ResolveReturn

SpecResolver == InitResolver /\ [][NextResolver]_vars

(***************************************************************************)
(* Properties                                                              *)
(***************************************************************************)

ManifestNames == { dependencies[i].name : i \in 1..Len(dependencies) }

\* build_dependency_tree has returned its tree.
BuilderReturned == pc \notin { "build", "raised" }

\* C1: the tree records, for every package name, every specifier under which
\* add_to_dependency_tree met that name (as a manifest entry or as a declared
\* dependency), also when the name had been visited before.
C1_RecordsEveryEncounter ==
  BuilderReturned =>
    \A e \in encountered : InSeq(e[2], TreeVersions(tree, e[1]))

\* The version document the builder fetched for a package of the tree: that of
\* the specifier recorded first.
FetchedDoc(n) == get_package_info(registry, n, TreeVersions(tree, n)[1]).info

DeclaredBy(n) ==
  IF TreeHas(tree, n)
  THEN { FetchedDoc(n).dependencies[i].name : i \in 1..Len(FetchedDoc(n).dependencies) }
  ELSE {}

\* The names reachable from ns through the dependencies the fetched documents
\* declare.
RECURSIVE Closure(_)
Closure(ns) ==
  LET more == ns \cup UNION { DeclaredBy(n) : n \in ns }
  IN IF more = ns THEN ns ELSE Closure(more)

\* The longest dependency list a version document of the registry declares.
DeclaredBound(reg) ==
  CHOOSE m \in 0..Cardinality(Names) :
    /\ \A n \in Names : Len(reg[n].deps) <= m /\ Len(reg[n].deps2) <= m
    /\ \E n \in Names : Len(reg[n].deps) = m \/ Len(reg[n].deps2) = m

\* C2: on every manifest and registry, cyclic ones included, the builder
\* terminates (the number of calls of add_to_dependency_tree is bounded by the
\* size of the manifest and of the registry) and fetches the metadata of each
\* reachable package name exactly once.
C2_TerminatesExpandingOnce ==
  /\ \A n \in Names : expanded[n] <= 1
  /\ invocations <= Len(dependencies) + Cardinality(Names) * DeclaredBound(registry)
  /\ pc = "detect" =>
       /\ visited = Closure(ManifestNames)
       /\ \A n \in Names : expanded[n] = IF n \in visited THEN 1 ELSE 0

\* The builder returned from a cycle between a and b that it entered twice.
C2_Witness ==
  /\ pc = "detect"
  /\ { Na, Nb } \subseteq visited
  /\ Nb \in DeclaredBy(Na)
  /\ Na \in DeclaredBy(Nb)
  /\ invocations > Cardinality(visited)

\* The k-th conflict names the package of the k-th conflicted tree entry.
TreeIndex(package) == CHOOSE i \in 1..Len(tree) : tree[i].package = package

\* find_conflicts has just returned its list.
Detected == pc = "check"

\* C3: find_conflicts reports a package if and only if its list in the tree has
\* at least two specifiers, each such package once, in the tree's key order.
C3_ConflictIffTwoSpecifiers ==
  Detected =>
    /\ \A i \in 1..Len(tree) :
         (Len(tree[i].versions) >= 2) <=>
           (\E k \in 1..Len(conflicts) : ConflictPackage(conflicts[k]) = tree[i].package)
    /\ \A k \in 1..Len(conflicts) : TreeHas(tree, ConflictPackage(conflicts[k]))
    /\ \A k, l \in 1..Len(conflicts) :
         k < l => TreeIndex(ConflictPackage(conflicts[k]))
                    < TreeIndex(ConflictPackage(conflicts[l]))

\* A tree of two packages, the second one conflicted, the first not.
C3_Witness ==
  /\ pc = "check"
  /\ Len(tree) = 2
  /\ Len(tree[1].versions) = 1
  /\ Len(tree[2].versions) = 2
  /\ Len(conflicts) = 1

\* The conflicted entries of the tree, in key order.
Hit == SelectSeq(tree, LAMBDA e : Len(e.versions) >= 2)

\* The versions of a package's catalog that lie in every one of the ranges.
Compatible(n, ranges) ==
  { v \in { registry[n].catalog[i] : i \in 1..Len(registry[n].catalog) } :
      \A i \in 1..Len(ranges) : Satisfies(ParseVersion(v), ParseRange(ranges[i])) }

Turns == Len(resolved) + Len(unresolved)

\* resolve_conflicts has called find_compatible_version for the k-th conflict.
Attempted(k) ==
  \/ k <= Turns
  \/ k = Turns + 1 /\ pc = "raised" /\ raised \notin { "", "ValueError" }

\* C4: find_compatible_version returns a version only if it is in the catalog
\* and satisfies every specifier; when no catalog version satisfies them all it
\* returns None, as a value and not as an exception, and resolve_conflicts
\* lists the conflict as unresolved.
C4_CompatibleOrUnresolved ==
  (pc \notin { "build", "detect", "check" } /\ Len(Hit) = Len(conflicts)) =>
    \A k \in 1..Len(conflicts) :
      /\ \A j \in 1..Len(resolved_dependencies) :
           resolved_dependencies[j].name = Hit[k].package =>
             resolved_dependencies[j].range \in Compatible(Hit[k].package, Hit[k].versions)
      /\ (Attempted(k) /\ Compatible(Hit[k].package, Hit[k].versions) = {}) =>
           InSeq(conflicts[k], unresolved)

\* resolve_conflicts has just returned through check_and_resolve_conflicts.
Resolved == pc = "checked" /\ conflicts # <<>>

\* What find_compatible_version answers for the k-th conflict.
Outcome(k) == find_compatible_version(registry, Hit[k].package, Hit[k].versions).value

Indices == [ k \in 1..Len(conflicts) |-> k ]

\* C5: resolve_conflicts returns ok iff no conflict is unresolved; the messages
\* are the resolved descriptions in input order, then the unresolved conflict
\* strings, verbatim, in input order; the map has one entry per resolved
\* package, with the chosen version, and none for an unresolved one.
C5_ResolveAggregates ==
  Resolved =>
    LET won == SelectSeq(Indices, LAMBDA k : Truthy(Outcome(k)))
        lost == SelectSeq(Indices, LAMBDA k : ~Truthy(Outcome(k)))
    IN /\ result.ok <=> (lost = <<>>)
       /\ result.messages =
            [ i \in 1..Len(won) |-> ResolvedMessage(Hit[won[i]].package, Outcome(won[i])) ]
              \o [ i \in 1..Len(lost) |-> conflicts[lost[i]] ]
       /\ result.deps =
            [ i \in 1..Len(won) |-> Dep(Hit[won[i]].package, Outcome(won[i])) ]

\* The first conflict stayed unresolved and the second one was resolved.
C5_Witness ==
  /\ pc = "checked"
  /\ Len(conflicts) = 2
  /\ unresolved = << conflicts[1] >>
  /\ Len(resolved) = 1

\* check_and_resolve_conflicts has returned.
Checked == pc \in { "checked", "lock", "done" }

\* C6: when find_conflicts reports nothing, check_and_resolve_conflicts returns
\* (True, ["No conflicts detected."], manifest) and resolve_conflicts is not
\* run.
C6_NoConflictsPassThrough ==
  (Checked /\ conflicts = <<>>) =>
    /\ result.ok
    /\ result.messages = << NoConflictsMsg >>
    /\ result.deps = dependencies
    /\ resolved = <<>> /\ unresolved = <<>> /\ resolved_dependencies = <<>>

\* The call returned for a manifest of two packages.
C6_Witness ==
  /\ pc = "checked"
  /\ conflicts = <<>>
  /\ Len(dependencies) = 2

\* The tree holds every manifest entry with its specifier.
TreeCoversManifest ==
  \A i \in 1..Len(dependencies) :
    InSeq(dependencies[i].range, TreeVersions(tree, dependencies[i].name))

LockUntouched ==
  /\ lockCalls = <<>>
  /\ lockPackages = <<>>
  /\ lockDependencies = <<>>
  /\ lockWrites = <<>>
  /\ lockFetched = {}
  /\ lockFailed = {}

\* C8: when check_and_resolve_conflicts reports ok=false, create_package_lock
\* fails with ValueError before any fetch for a lock entry and returns no lock.
C8_RefusesUnresolved ==
  /\ pc \in { "lock", "done" } => result.ok
  /\ (result # NoResult /\ ~result.ok /\ pc # "checked") =>
       pc = "raised" /\ raised = "ValueError" /\ LockUntouched

\* A partial resolution was refused.
C8_Witness ==
  /\ pc = "raised"
  /\ raised = "ValueError"
  /\ ~result.ok
  /\ Len(result.deps) = 1
  /\ Len(unresolved) = 1

Front(c) == SubSeq(c, 1, Len(c) - 1)

Last(c) == c[Len(c)]

\* The install path of a chain of package names, from a manifest entry down.
RECURSIVE ChainPath(_)
ChainPath(c) ==
  IF Len(c) = 1 THEN NodeModules \o c[1]
  ELSE ChainPath(Front(c)) \o << "/" >> \o NodeModules \o Last(c)

LockKeys == { lockPackages[i].path : i \in 1..Len(lockPackages) }

EntryAt(path) ==
  lockPackages[CHOOSE i \in 1..Len(lockPackages) : lockPackages[i].path = path]

\* The entry of the chain's parent declares the chain's last package.
DeclaredByParent(c) ==
  /\ Front(c) \in lockFetched
  /\ ChainPath(Front(c)) \in LockKeys
  /\ \E i \in 1..Len(EntryAt(ChainPath(Front(c))).requires) :
       EntryAt(ChainPath(Front(c))).requires[i].name = Last(c)

\* C9: every non-root lock entry is keyed by its parent's path extended with
\* node_modules/<name>, so that the key spells the chain of package names from
\* a manifest entry down to the package; no path is written twice, and the keys
\* are exactly the chains whose fetch succeeded.
C9_PathsSpellChains ==
  /\ LockKeys = { ChainPath(c) : c \in lockFetched }
  /\ Len(lockPackages) = Cardinality(lockFetched)
  /\ \A i, j \in 1..Len(lockWrites) : i # j => lockWrites[i] # lockWrites[j]
  /\ \A c \in lockFetched :
       IF Len(c) = 1
       THEN \E i \in 1..Len(result.deps) : result.deps[i].name = c[1]
       ELSE DeclaredByParent(c)

\* The lock holds one package name at two paths with two versions, one of them
\* three levels deep.
C9_Witness ==
  /\ pc = "done"
  /\ \E c, d \in lockFetched :
       /\ Len(c) = 3
       /\ Last(c) = Last(d)
       /\ EntryAt(ChainPath(c)).version # EntryAt(ChainPath(d)).version

\* The fetch for the last package of a chain succeeds.
FetchSucceeds(c) == registry[Last(c)].known /\ Len(c) <= MaxDepth

IsPrefix(f, c) == Len(f) < Len(c) /\ SubSeq(c, 1, Len(f)) = f

\* C10: once the lock is being generated, a failed fetch does not make
\* create_package_lock raise; the failing package and its subtree get no entry,
\* while its parent, its siblings and the other top-level packages get theirs.
C10_FailureSkipsOnlyItsSubtree ==
  /\ (lockFetched \cup lockFailed # {}) => pc \in { "lock", "done" }
  /\ \A f \in lockFailed :
       /\ ChainPath(f) \notin LockKeys
       /\ \A c \in lockFetched \cup lockFailed : ~IsPrefix(f, c)
       /\ Len(f) > 1 => ChainPath(Front(f)) \in LockKeys
  /\ pc = "done" =>
       /\ \A i \in 1..Len(result.deps) :
            LET c == << result.deps[i].name >>
            IN IF FetchSucceeds(c) THEN ChainPath(c) \in LockKeys ELSE c \in lockFailed
       /\ \A p \in lockFetched :
            \A i \in 1..Len(EntryAt(ChainPath(p)).requires) :
              LET c == Append(p, EntryAt(ChainPath(p)).requires[i].name)
              IN IF FetchSucceeds(c) THEN ChainPath(c) \in LockKeys ELSE c \in lockFailed

\* The registry did not know a nested package, and the sibling declared after it
\* got its entry.
C10_Witness ==
  /\ pc = "done"
  /\ \E f \in lockFailed :
       /\ Len(f) >= 2
       /\ Len(f) <= MaxDepth
       /\ LET req == EntryAt(ChainPath(Front(f))).requires
          IN /\ Len(req) = 2
             /\ req[1].name = Last(f)
             /\ ChainPath(Append(Front(f), req[2].name)) \in LockKeys

\* The specifier the builder fetched a visited package with.
FetchedWith(n) == TreeVersions(tree, n)[1]

\* C11: when the metadata fetch fails for a package the builder visits, at the
\* top level or nested, the failure leaves build_dependency_tree,
\* find_conflicts and check_and_resolve_conflicts as an exception: no tree, no
\* conflict list and no result triple is returned.
C11_FetchFailurePropagates ==
  \A n \in visited :
    ~registry[n].known =>
      /\ pc = "raised"
      /\ raised = "HTTPStatusError"
      /\ calls = <<>>
      /\ conflicts = <<>>
      /\ result = NoResult
      /\ LockUntouched

\* The fetch failed for a package that is not in the manifest, after another
\* package had been recorded.
C11_Witness ==
  /\ pc = "raised"
  /\ Len(tree) >= 2
  /\ \E n \in visited \ ManifestNames : ~registry[n].known

\* C19: whenever check_and_resolve_conflicts returns, it returns (True, ["No
\* conflicts detected."], manifest): every list of the tree the builder makes
\* holds exactly one specifier, so find_conflicts returns nothing and
\* resolve_conflicts is never run.
C19_NeverAConflict ==
  /\ \A i \in 1..Len(tree) : Len(tree[i].versions) = 1
  /\ pc \in { "check", "checked", "lock", "done" } => conflicts = <<>>
  /\ pc # "resolve"
  /\ resolved = <<>> /\ unresolved = <<>> /\ resolved_dependencies = <<>>
  /\ pc \in { "checked", "lock", "done" } =>
       result = [ok |-> TRUE, messages |-> << NoConflictsMsg >>, deps |-> dependencies]

\* The call returned although the builder had met one package under two
\* specifiers.
C19_Witness ==
  /\ pc = "checked"
  /\ \E e, f \in encountered : e[1] = f[1] /\ e[2] # f[2]

RECURSIVE Power(_, _)
Power(b, k) == IF k = 0 THEN 1 ELSE b * Power(b, k - 1)

\* The dependency chains of at most d names.
RECURSIVE ChainsUpTo(_)
ChainsUpTo(d) == IF d = 0 THEN 0 ELSE Power(Cardinality(Names), d) + ChainsUpTo(d - 1)

\* The calls of add_package_to_lock so far.
LockInvocations == Len(lockWrites) + Cardinality(lockFailed)

C18_NoMatchFailsHard ==
  \A n \in visited :
    (registry[n].known /\ Compatible(n, << FetchedWith(n) >>) = {}) =>
      /\ pc = "raised"
      /\ raised \notin { "", "HTTPStatusError" }

Planned == pc = "download" /\ \A i \in 1..Len(tasks) : tasks[i] = "waiting"

\* The concrete version install_package resolves a specifier to.
ResolvedVersion(n, version) == install_get_package_info(registry, n, version).info.version

QueueHas(n, v) ==
  \E i \in 1..Len(download_queue) :
    download_queue[i].package_name = n /\ download_queue[i].version = v

\* C13: the download queue never holds two entries with the same package name
\* and concrete version, and every concrete version install_package resolved,
\* two versions of one name included, has its entry.
C13_QueueUniquePerVersion ==
  /\ \A i, j \in 1..Len(download_queue) :
       (/\ download_queue[i].package_name = download_queue[j].package_name
        /\ download_queue[i].version = download_queue[j].version) => i = j
  /\ Planned =>
       \A r \in requested :
         registry[r[1]].known => QueueHas(r[1], ResolvedVersion(r[1], r[2]))

\* b was reached through two specifiers that resolve to the same version and
\* has one entry; the queue holds both versions of a.
C13_Witness ==
  /\ Planned
  /\ { << Nb, Caret(V100) >>, << Nb, V120 >> } \subseteq requested
  /\ Cardinality({ i \in 1..Len(download_queue) : download_queue[i].package_name = Nb }) = 1
  /\ QueueHas(Na, V120)
  /\ QueueHas(Na, V200)

\* The downloads have ended, with or without an exception.
DownloadsOver == pc \in { "finished", "raised" } /\ tasks # <<>>

\* C14: the failure of one download touches that item alone: under every
\* interleaving, every other download of the queue runs to its end and writes
\* its file.
C14_FailureIsolated ==
  DownloadsOver =>
    \A i \in 1..Len(tasks) :
      download_queue[i].package_name \notin broken => tasks[i] = "written"

\* The files written so far.
Written == { fsLog[k].path : k \in { k \in 1..Len(fsLog) : fsLog[k].op = "write" } }

\* C15: the files of the queue entries are pairwise distinct, so no two
\* download tasks write to the same path, whatever their interleaving.
C15_FilesDistinct ==
  /\ \A i, j \in 1..Len(download_queue) :
       i # j => EntryFile(download_queue[i]) # EntryFile(download_queue[j])
  /\ \A k, l \in 1..Len(fsLog) :
       (k # l /\ fsLog[k].op = "write" /\ fsLog[l].op = "write") =>
         fsLog[k].path # fsLog[l].path
  /\ \A i \in 1..Len(tasks) :
       tasks[i] = "written" <=> EntryFile(download_queue[i]) \in Written

\* Two versions of a were downloaded in one run, the later queued one first.
C15_Witness ==
  /\ pc = "finished"
  /\ \E i, j \in 1..Len(download_queue) :
       /\ i < j
       /\ download_queue[i].package_name = Na
       /\ download_queue[j].package_name = Na
       /\ \E k, l \in 1..Len(fsLog) :
            /\ k < l
            /\ fsLog[k] = WriteFile(EntryFile(download_queue[j]))
            /\ fsLog[l] = WriteFile(EntryFile(download_queue[i]))

\* The changes the install command makes before the downloads, in its order.
CliOrder ==
  << WriteFile(PackageJsonPath), WriteFile(PackageLockPath), MkDir(NodeModulesDir) >>

\* C16: when check_and_resolve_conflicts reports ok=false or raises, the
\* install command rewrites no package.json, writes no package-lock.json,
\* creates no node_modules and starts no download; the manifest write, the lock
\* write and the downloads happen only after ok=true, in that order.
C16_NothingBeforeResolution ==
  /\ cliResolved # "True" =>
       /\ fsLog = <<>>
       /\ LockUntouched
       /\ NothingInstalled
       /\ (packageJson.exists /\ pc # "cli") =>
            packageJson.dependencies = dependencies
  /\ \A k \in 1..Len(fsLog) :
       IF k <= Len(CliOrder) THEN fsLog[k] = CliOrder[k]
       ELSE /\ fsLog[k].op = "write"
            /\ \E i \in 1..Len(download_queue) :
                 fsLog[k].path = EntryFile(download_queue[i])
  /\ tasks # <<>> => Len(fsLog) >= Len(CliOrder)

\* The resolution reported ok=false for a manifest with dependencies and the
\* command ended.
C16_Witness ==
  /\ pc = "finished"
  /\ cliResolved = "False"
  /\ result.deps # <<>>
  /\ packageJson.dependencies # <<>>

\* The keys of package.json other than "dependencies", in order.
OtherKeys(pj) == SelectSeq(pj.keys, LAMBDA k : k # "dependencies")

\* The dependencies new are the dependencies old with the entry of name added
\* or updated and nothing else changed.
OnlyEntryChanged(old, new, name) ==
  /\ Len(new) >= Len(old)
  /\ \A i \in 1..Len(old) :
       /\ new[i].name = old[i].name
       /\ old[i].name # name => new[i].range = old[i].range
  /\ \A i \in (Len(old) + 1)..Len(new) :
       /\ i = Len(old) + 1
       /\ new[i].name = name
       /\ \A k \in 1..Len(old) : old[k].name # name

\* C17: add_package changes only the entry of the package it adds or updates:
\* every other dependency keeps its name, specifier and position, an updated
\* package keeps its position, a new one is appended, and the other fields of
\* package.json stay as they are.
C17_AddFrame ==
  [][ pc = "add" =>
        /\ OnlyEntryChanged(packageJson.dependencies, packageJson'.dependencies,
                            parse_package_name(addArg).name)
        /\ packageJson'.name = packageJson.name
        /\ OtherKeys(packageJson') = OtherKeys(packageJson)
        /\ pc' = "added" =>
             \E i \in 1..Len(packageJson'.dependencies) :
               packageJson'.dependencies[i].name = parse_package_name(addArg).name
    ]_vars

\* a, the first of two dependencies, was updated in its place, in a file whose
\* name field follows the dependencies.
C17_Witness ==
  /\ pc = "added"
  /\ returned.existed
  /\ returned.package_name = Na
  /\ Len(packageJson.dependencies) = 2
  /\ packageJson.dependencies[1] = Dep(Na, Caret(Caret(V200)))
  /\ packageJson.keys = << "dependencies", "name" >>

\* The specifiers of the conflict resolve_conflicts was given.
Asked == ConflictVersions(conflicts[1])

====
